---- MODULE Spec2Model ----
(***************************************************************************)
(* DublinOnTime/main.py: the Dialogflow webhook that resolves a bus stop   *)
(* number from the user's words, scrapes the RTPI arrival table for it and *)
(* answers with a spoken message.                                          *)
(*                                                                         *)
(* A Python str is a sequence of symbols.  A symbol is one character       *)
(* ("7", " ", ":") or one whole literal of the source that the program     *)
(* only ever concatenates (a phrase of a phrase bank, an SSML tag).  The   *)
(* characters "<" and ">" occur only inside tag symbols.                   *)
(* A Python exception is carried as the field exc of a result record;      *)
(* exc = "none" is a normal return.                                        *)
(***************************************************************************)
EXTENDS Integers, Sequences, FiniteSets, TLC

VARIABLES
    pc,            \* position of the operation under way
    req,           \* the Dialogflow request handed to on_post
    bus_stop,      \* on_post: the resolved stop number (line 64)
    full_query,    \* the URL given to requests.get, if a fetch was made
    response,      \* the BusStopResponse object (line 68 / __init__)
    resp,          \* falcon's response object: body, content_type, status
    raised,        \* the exception that left on_post, "none" if none did
    bus_times_response_state,  \* the table handed to BusStopResponse (line 67)
    service_time,  \* prepare_message: its argument (service, time)
    message        \* prepare_message: its result

vars == <<pc, req, bus_stop, full_query, bus_times_response_state, response, resp, raised,
          service_time, message>>

(***************************************************************************)
(* Bounds of the model.                                                    *)
(***************************************************************************)
MaxStopPieces == 4
MaxTimePieces == 3
MaxRows == 6
MaxTableRows == 2

(***************************************************************************)
(* Python built-ins used by the program.                                   *)
(***************************************************************************)
DigitSeq == <<"0", "1", "2", "3", "4", "5", "6", "7", "8", "9">>

Digits == {DigitSeq[i] : i \in 1..10}

IsDigit(c) == c \in Digits

DigitVal(c) == (CHOOSE i \in 1..10 : DigitSeq[i] = c) - 1

UpperSeq == <<"A", "B", "C", "D", "E", "F", "G", "H", "I", "J", "K", "L", "M",
              "N", "O", "P", "Q", "R", "S", "T", "U", "V", "W", "X", "Y", "Z">>

LowerSeq == <<"a", "b", "c", "d", "e", "f", "g", "h", "i", "j", "k", "l", "m",
              "n", "o", "p", "q", "r", "s", "t", "u", "v", "w", "x", "y", "z">>

\* str.lower() on one character
LowerChar(c) ==
    IF \E i \in 1..26 : UpperSeq[i] = c
        THEN LowerSeq[CHOOSE i \in 1..26 : UpperSeq[i] = c]
        ELSE c

\* str.lower()
Lower(s) == [i \in 1..Len(s) |-> LowerChar(s[i])]

\* str.find(sub): the 0-based index of the first occurrence, -1 if none
Find(s, sub) ==
    LET hits == {i \in 0..(Len(s) - Len(sub)) : SubSeq(s, i + 1, i + Len(sub)) = sub}
    IN  IF hits = {} THEN -1 ELSE CHOOSE i \in hits : \A j \in hits : i <= j

\* sub in s
Contains(s, sub) == Find(s, sub) # -1

\* s[start:stop] with Python's treatment of negative and out-of-range indices
PySlice(s, start, stop) ==
    LET norm(k) == IF k < 0
                       THEN (IF Len(s) + k < 0 THEN 0 ELSE Len(s) + k)
                       ELSE (IF k > Len(s) THEN Len(s) ELSE k)
    IN  SubSeq(s, norm(start) + 1, norm(stop))

RECURSIVE Replace(_, _, _)
\* str.replace(old, new), old non-empty: every occurrence, left to right
Replace(s, old, new) ==
    LET i == Find(s, old)
    IN  IF i = -1
            THEN s
            ELSE SubSeq(s, 1, i) \o new
                 \o Replace(SubSeq(s, i + Len(old) + 1, Len(s)), old, new)

\* s.split(sep, 1)[0]
SplitFirst(s, sep) ==
    LET i == Find(s, sep)
    IN  IF i = -1 THEN s ELSE SubSeq(s, 1, i)

RECURSIVE FindAllDigits(_)
\* re.findall('\d+', s): the maximal digit runs of s, left to right
FindAllDigits(s) ==
    LET starts == {i \in 1..Len(s) : IsDigit(s[i])}
    IN  IF starts = {}
            THEN <<>>
            ELSE LET p == CHOOSE i \in starts : \A j \in starts : i <= j
                     ends == {e \in p..Len(s) : \A k \in p..e : IsDigit(s[k])}
                     e == CHOOSE i \in ends : \A j \in ends : i >= j
                 IN  <<SubSeq(s, p, e)>> \o FindAllDigits(SubSeq(s, e + 1, Len(s)))

RECURSIVE DigitsToNat(_)
DigitsToNat(s) ==
    IF s = <<>> THEN 0
    ELSE 10 * DigitsToNat(SubSeq(s, 1, Len(s) - 1)) + DigitVal(s[Len(s)])

\* int(s) for the characters of the model: a non-empty run of digits, else ValueError
PyInt(s) ==
    IF s # <<>> /\ \A i \in 1..Len(s) : IsDigit(s[i])
        THEN [exc |-> "none", val |-> DigitsToNat(s)]
        ELSE [exc |-> "ValueError", val |-> 0]

RECURSIVE IntToStr(_)
\* str(n) for n >= 0
IntToStr(n) ==
    IF n < 10 THEN <<DigitSeq[n + 1]>>
    ELSE IntToStr(n \div 10) \o <<DigitSeq[(n % 10) + 1]>>

RECURSIVE Concat(_)
\* ''.join(parts)
Concat(parts) ==
    IF parts = <<>> THEN <<>> ELSE Head(parts) \o Concat(Tail(parts))

RECURSIVE Join(_, _)
\* sep.join(parts)
Join(sep, parts) ==
    IF parts = <<>> THEN <<>>
    ELSE IF Len(parts) = 1 THEN parts[1]
    ELSE parts[1] \o sep \o Join(sep, Tail(parts))

\* the sequences over S of length at most n
SeqUpTo(S, n) == UNION {[1..k -> S] : k \in 0..n}

(***************************************************************************)
(* The stop number, on_post lines 52-65.                                   *)
(***************************************************************************)
ToSep == <<" ", "t", "o", " ">>

\* the splice with the whole of the left part kept
SpliceTo_KeepsLeft(stop_param) ==
    LET index == Find(stop_param, ToSep)
    IN  PySlice(stop_param, 0, index) \o <<"2">>
        \o PySlice(stop_param, index + 4, Len(stop_param))

\* lines 57-60: '70 to 94' becomes '7294'
SpliceTo(stop_param) ==
    LET index == Find(stop_param, ToSep)
    IN  PySlice(stop_param, 0, index - 1) \o <<"2">>
        \o PySlice(stop_param, index + 4, Len(stop_param))

\* lines 57-64: the stop number of a stop parameter that holds a digit
resolve_stop(stop_param) ==
    LET match_numbers == FindAllDigits(stop_param)
        chosen == IF Contains(stop_param, ToSep)
                      THEN SpliceTo(stop_param)
                      ELSE match_numbers[1]
        no_spaces == Replace(chosen, <<" ">>, <<>>)
    IN  PyInt(SplitFirst(no_spaces, <<".">>))

\* lines 52-53
stop_param_of(r) == IF r.has_stop THEN r.stop ELSE <<>>

\* line 55: the condition of the branch that looks the stop up
HasUsableStop(r) ==
    /\ r.action = "call_busstop_api"
    /\ stop_param_of(r) # <<>>
    /\ FindAllDigits(stop_param_of(r)) # <<>>

NoStop == [exc |-> "unset", val |-> 0]

(***************************************************************************)
(* Python values of a table cell: str(v) is v.repr.                        *)
(***************************************************************************)
StrVal(s) == [type |-> "str", repr |-> s]

IntVal(n) == [type |-> "int", repr |-> IntToStr(n)]

NaN == [type |-> "float", repr |-> <<"n", "a", "n">>]

PyStr(v) == v.repr

(***************************************************************************)
(* class Availability, class Constants                                     *)
(***************************************************************************)
Availability == {"ONE_BUS", "MANY_BUSES", "NO_BUSES"}

MAX_BUSES == 5

(***************************************************************************)
(* class BusStopResponse: the phrase banks (one symbol per phrase).        *)
(***************************************************************************)
greetings ==
    << "Welcome to Dublin on time. Please tell me the bus stop number you would like me to check for you",
       "Hello!, please tell me the stop number you would like me to verify",
       "Hey there, please tell me the stop number you need me to check",
       "Hi, please tell me the stop number" >>

error_messages ==
    << "Sorry, I could not find this information. Please try later.",
       "It was not possible to get this information. Please try again later" >>

single_bus_message == << "One bus is coming.", "There is one bus coming  " >>

many_buses_message ==
    << " These buses are coming soon: ", " The following buses are coming:  ",
       " These are the buses coming to your bus stop: " >>

goodbye_message ==
    << " Have a safe trip!", " Goodbye!", " Have a nice day!", " Have a great day!", "  Adios!" >>

NoBusesSentence == "I could not find any buses arriving at this bus stop."

\* the raw draws of the random module; enough of them to reach every phrase of
\* the longest bank
Draws == 0..(Len(goodbye_message) - 1)

\* random.choice(bank) on the raw draw d
choice(bank, d) == bank[(d % Len(bank)) + 1]

\* a request calls random.choice at most twice: first for a greeting or a
\* lead-in, then for a sign-off or an error message
Rnd == [first : Draws, second : Draws]

(***************************************************************************)
(* SSML: the tag symbols, and the helpers that wrap a message.             *)
(***************************************************************************)
SayAsOpen == "<say-as interpret-as=\"time\" format=\"24\">"

SayAsClose == "</say-as>"

BreakOpen == "<break time=\""

BreakClose == "\"/>"

\* symbols that are one or more whole tags
WholeTags == {"<speak>", "</speak>", "<p><s>", "</s></p>", SayAsOpen, SayAsClose}

make_ssml_message(m) == <<"<speak>">> \o m \o <<"</speak>">>

make_paragraph(m) == <<"<p><s>">> \o m \o <<"</s></p>">>

add_speech_pause(m, when, time) ==
    IF when = "before" THEN <<BreakOpen>> \o time \o <<BreakClose>> \o m
    ELSE IF when = "after" THEN m \o <<BreakOpen>> \o time \o <<BreakClose>>
    ELSE m

RECURSIVE get_text_only_message(_)
\* re.sub('<[^>]+>', '', message): a whole-tag symbol is dropped, and so is the
\* stretch from a symbol that opens a tag to the first symbol that closes one
get_text_only_message(m) ==
    IF m = <<>> THEN <<>>
    ELSE IF Head(m) \in WholeTags THEN get_text_only_message(Tail(m))
    ELSE IF Head(m) = BreakOpen
        THEN LET closes == {i \in 2..Len(m) : m[i] = BreakClose}
             IN  IF closes = {}
                     THEN <<Head(m)>> \o get_text_only_message(Tail(m))
                     ELSE LET c == CHOOSE i \in closes : \A j \in closes : i <= j
                          IN  get_text_only_message(SubSeq(m, c + 1, Len(m)))
    ELSE <<Head(m)>> \o get_text_only_message(Tail(m))

get_greeting_with_question(d) == <<choice(greetings, d)>>

get_error_message(d) == <<choice(error_messages, d)>>

get_single_bus_message_initial_greeting(d) ==
    make_paragraph(<<choice(single_bus_message, d)>>)

get_many_buses_initial_greeting(d) ==
    make_paragraph(<<choice(many_buses_message, d)>>)

get_goodbye_message(d) ==
    add_speech_pause(<<choice(goodbye_message, d)>>, "before", <<"2", "s">>)

\* DialogflowResponse with one SimpleResponse(display text, ssml)
create_google_response(m, expect_user_response) ==
    [set |-> TRUE, expect_user_response |-> expect_user_response,
     text |-> get_text_only_message(m), ssml |-> make_ssml_message(m)]

(***************************************************************************)
(* get_incoming_buses_detailed_message and its inner functions.            *)
(***************************************************************************)
DueText == <<"d", "u", "e">>

is_time(time_value) == Contains(PyStr(time_value), <<":">>)

\* is_due without lower()
is_due_exact(time_value) == PyStr(time_value) = DueText

is_due(time_value) == Lower(PyStr(time_value)) = DueText

IsDueSuffix == <<" ", "i", "s", " ", "d", "u", "e">>

IsComingAt == <<" ", "i", "s", " ", "c", "o", "m", "i", "n", "g", " ", "a", "t", " ">>

Mins == <<"M", "i", "n", "s">>

Minutes == <<"m", "i", "n", "u", "t", "e", "s">>

\* lines 250-263; st = <<service, time>>
prepare_message(st) ==
    LET m == PyStr(st[1]) \o <<" ">>
    IN  IF is_due(st[2])
            THEN [exc |-> "none", val |-> m \o IsDueSuffix]
        ELSE IF is_time(st[2])
            THEN IF st[2].type = "str"
                     THEN [exc |-> "none",
                           val |-> m \o IsComingAt \o <<SayAsOpen, " ">>
                                   \o st[2].repr \o <<SayAsClose>>]
                     ELSE [exc |-> "TypeError", val |-> <<>>]
        ELSE IF st[2].type = "str"
            THEN [exc |-> "none", val |-> m \o Replace(st[2].repr, Mins, Minutes)]
            ELSE [exc |-> "AttributeError", val |-> <<>>]

\* a pandas DataFrame: its column names and its rows, top to bottom
Frame(columns, rows) == [type |-> "DataFrame", columns |-> columns, rows |-> rows]

\* Python's None
NoneValue == [type |-> "NoneType", columns |-> {}, rows |-> <<>>]

\* lines 265-268: one fragment per row, the first failing row raising
get_incoming_buses_detailed_message(bus_response) ==
    IF bus_response.type # "DataFrame" THEN [exc |-> "TypeError", val |-> <<>>]
    ELSE IF ~({"Service", "Time"} \subseteq bus_response.columns)
        THEN [exc |-> "KeyError", val |-> <<>>]
    ELSE LET rows == bus_response.rows
             frag == [i \in 1..Len(rows) |-> prepare_message(<<rows[i].Service, rows[i].Time>>)]
             bad == {i \in 1..Len(rows) : frag[i].exc # "none"}
         IN  IF bad # {}
                 THEN [exc |-> frag[CHOOSE i \in bad : \A j \in bad : i <= j].exc, val |-> <<>>]
                 ELSE [exc |-> "none", val |-> [i \in 1..Len(rows) |-> frag[i].val]]

(***************************************************************************)
(* class BusStopResponse: the object is [bus_response, availability,       *)
(* response_message], exc the exception __init__ ended with.               *)
(***************************************************************************)
\* a head that keeps the last n rows
head_last(frame, n) ==
    [frame EXCEPT !.rows = SubSeq(frame.rows, Len(frame.rows) - n + 1, Len(frame.rows))]

\* DataFrame.head(n)
head(frame, n) == [frame EXCEPT !.rows = SubSeq(frame.rows, 1, n)]

\* lines 223-230: the body of the try; reading bus_response.Service raises when
\* bus_response is None or has no such column
set_availability_try(self) ==
    IF self.bus_response.type # "DataFrame" \/ "Service" \notin self.bus_response.columns
        THEN [self EXCEPT !.exc = "AttributeError"]
    ELSE LET size == Len(self.bus_response.rows)
         IN  IF size > 1
                 THEN [self EXCEPT !.availability = "MANY_BUSES",
                                   !.bus_response =
                                       IF size > MAX_BUSES
                                           THEN head(self.bus_response, MAX_BUSES)
                                           ELSE self.bus_response]
             ELSE IF size = 1
                 THEN [self EXCEPT !.availability = "ONE_BUS"]
             ELSE [self EXCEPT !.availability = "NO_BUSES"]

\* set_availability without its except clause
set_availability_uncaught(self) == set_availability_try(self)

\* lines 220-232
set_availability(self) ==
    LET tried == set_availability_try(self)
    IN  IF tried.exc # "none"
            THEN [self EXCEPT !.availability = "NO_BUSES"]
            ELSE tried

\* a separator without its space
Separator_Comma == <<",">>

\* line 217: ', '
Separator == <<",", " ">>

\* lines 205-218
set_message(self, d) ==
    LET first == IF self.availability = "MANY_BUSES"
                     THEN get_many_buses_initial_greeting(d)
                 ELSE IF self.availability = "ONE_BUS"
                     THEN get_single_bus_message_initial_greeting(d)
                 ELSE <<NoBusesSentence>>
    IN  IF self.availability = "MANY_BUSES" \/ self.availability = "ONE_BUS"
            THEN LET details == get_incoming_buses_detailed_message(self.bus_response)
                 IN  IF details.exc # "none"
                         THEN [self EXCEPT !.exc = details.exc, !.response_message = first]
                         ELSE [self EXCEPT !.response_message =
                                               first \o Join(Separator, details.val)]
            ELSE [self EXCEPT !.response_message = first]

\* lines 141-147
BusStopResponse(bus_response, d) ==
    LET classified ==
            set_availability([built |-> TRUE, exc |-> "none", bus_response |-> bus_response,
                              availability |-> "None", response_message |-> <<>>])
    IN  IF classified.exc # "none" THEN classified ELSE set_message(classified, d)

NoResponse == [built |-> FALSE, exc |-> "none", bus_response |-> NoneValue,
               availability |-> "None", response_message |-> <<>>]

(***************************************************************************)
(* class BusStopRequest.  The world is what the RTPI site does with the    *)
(* request: requests.get raises fetch_exc, or answers a page whose tables  *)
(* pandas.read_html finds.                                                 *)
(***************************************************************************)
\* the attributes of class BusStopRequest (lines 43-119)
BusStopRequestAttrs ==
    {"on_post", "query_bus_stop", "get_rtpi_site", "send_request", "deserialize_response"}

get_rtpi_site == <<"http://rtpi.ie/Text/WebDisplay.aspx">>

\* line 92: the URL that query_bus_stop hands to send_request
query_url(stop_number) == get_rtpi_site \o <<"?stopRef=">> \o IntToStr(stop_number)

\* lines 100-108 (requests.get)
send_request(url, world) ==
    IF world.fetch_exc # "none"
        THEN [exc |-> world.fetch_exc, tables |-> <<>>]
        ELSE [exc |-> "none", tables |-> world.tables]

\* lines 90-92
query_bus_stop(stop_number, world) == send_request(query_url(stop_number), world)

\* lines 110-119
deserialize_response(raw_response) ==
    IF raw_response.tables = <<>>
        THEN [exc |-> "ValueError", val |-> NoneValue]
    ELSE LET html_table == raw_response.tables[1]
         IN  IF ~({"Service", "Time"} \subseteq html_table.columns)
                 THEN [exc |-> "KeyError", val |-> NoneValue]
                 ELSE [exc |-> "none", val |-> Frame({"Service", "Time"}, html_table.rows)]

NoBody == [set |-> FALSE, expect_user_response |-> FALSE, text |-> <<>>, ssml |-> <<>>]

\* falcon's response object as on_post receives it
FreshResp == [body |-> NoBody, content_type |-> "unset", status |-> "200 OK"]

MEDIA_JSON == "application/json"

HTTP_200 == "200 OK"

\* self.create_google_response(...) with self a BusStopRequest (lines 77 and 86):
\* the attribute is looked up on class BusStopRequest before the arguments are evaluated
self_create_google_response(m, expect_user_response) ==
    IF "create_google_response" \in BusStopRequestAttrs
        THEN [exc |-> "none", val |-> create_google_response(m, expect_user_response)]
        ELSE [exc |-> "AttributeError", val |-> NoBody]

\* what on_post leaves behind
Outcome(stop, url, table, obj, r, exc) ==
    [bus_stop |-> stop, full_query |-> url, bus_times_response_state |-> table,
     response |-> obj, resp |-> r, raised |-> exc]

Answered(body) == [body |-> body, content_type |-> MEDIA_JSON, status |-> HTTP_200]

\* lines 48-82: the try block; exc is the exception it ends with
try_block(r, world, rnd) ==
    IF ~r.json_ok
        THEN Outcome(NoStop, <<>>, NoneValue, NoResponse, FreshResp, "JSONDecodeError")
    ELSE IF HasUsableStop(r)
        THEN LET stop == resolve_stop(stop_param_of(r))
                 url == query_url(stop.val)
                 query_response == query_bus_stop(stop.val, world)
                 table == deserialize_response(query_response)
                 obj == BusStopResponse(table.val, rnd.first)
                 final_response == obj.response_message \o get_goodbye_message(rnd.second)
             IN  IF stop.exc # "none"
                     THEN Outcome(NoStop, <<>>, NoneValue, NoResponse, FreshResp, stop.exc)
                 ELSE IF query_response.exc # "none"
                     THEN Outcome(stop, url, NoneValue, NoResponse, FreshResp,
                                  query_response.exc)
                 ELSE IF table.exc # "none"
                     THEN Outcome(stop, url, NoneValue, NoResponse, FreshResp, table.exc)
                 ELSE IF obj.exc # "none"
                     THEN Outcome(stop, url, table.val, NoResponse, FreshResp, obj.exc)
                 ELSE Outcome(stop, url, table.val, obj,
                              Answered(create_google_response(final_response, FALSE)),
                              "none")
    ELSE IF r.action = "call_busstop_api"
        THEN LET body == self_create_google_response(get_greeting_with_question(rnd.first), TRUE)
             IN  IF body.exc # "none"
                     THEN Outcome(NoStop, <<>>, NoneValue, NoResponse, FreshResp, body.exc)
                     ELSE Outcome(NoStop, <<>>, NoneValue, NoResponse, Answered(body.val),
                                  "none")
    ELSE Outcome(NoStop, <<>>, NoneValue, NoResponse, FreshResp, "APIException")

\* lines 46-88: the try block, then the handler of any Exception
on_post(r, world, rnd) ==
    LET t == try_block(r, world, rnd)
    IN  IF t.raised = "none"
            THEN t
            ELSE LET body == self_create_google_response(get_error_message(rnd.second), FALSE)
                 IN  IF body.exc # "none"
                         THEN [t EXCEPT !.raised = body.exc]
                         ELSE [t EXCEPT !.raised = "none", !.resp = Answered(body.val)]

(***************************************************************************)
(* The inputs.                                                             *)
(***************************************************************************)
StopPieces == {<<"7">>, <<"0">>, <<"4">>, ToSep, <<"/">>, <<".">>, <<" ">>, <<"A">>}

StopTexts == {Concat(p) : p \in SeqUpTo(StopPieces, MaxStopPieces)}

Request(json_ok, action, has_stop, stop) ==
    [json_ok |-> json_ok, action |-> action, has_stop |-> has_stop, stop |-> stop]

NoRequest == Request(FALSE, "", FALSE, <<>>)

\* the stop parameters of the requests on_post is run on
SampleStops ==
    { <<>>, <<"A">>, <<"4", "6", "A">>, <<"7", "0", " ", "t", "o", " ", "9", "4">>,
      <<"2", "4", "/", "7", "2">>, <<"1", "2", ".", "5">>, <<" ", "t", "o", " ", "5">> }

Actions == {"call_busstop_api", "input.welcome"}

Requests ==
    {Request(TRUE, a, TRUE, s) : a \in Actions, s \in SampleStops}
    \cup {Request(TRUE, a, FALSE, <<>>) : a \in Actions}
    \cup {NoRequest}

Row(service, time) == [Service |-> service, Time |-> time]

\* the kinds of table row: due, a clock time, minutes, an empty time cell
RowKinds ==
    { Row(StrVal(<<"4", "6", "A">>), StrVal(<<"D", "u", "e">>)),
      Row(IntVal(145), StrVal(<<"2", "2", ":", "0", "5">>)),
      Row(StrVal(<<"3", "9">>), StrVal(<<"1", "0", " ", "M", "i", "n", "s">>)),
      Row(StrVal(<<"7">>), NaN) }

Worlds ==
    {[fetch_exc |-> "ConnectionError", tables |-> <<>>],
     [fetch_exc |-> "none", tables |-> <<>>],
     [fetch_exc |-> "none", tables |-> <<Frame({"Stop"}, <<>>)>>]}
    \cup {[fetch_exc |-> "none", tables |-> <<Frame({"Service", "Time"}, rows)>>] :
              rows \in SeqUpTo(RowKinds, MaxTableRows)}

\* what BusStopResponse is constructed from: None, a table that lacks a column,
\* a table of up to MaxRows rows
ResponseInputs ==
    {NoneValue}
    \cup {Frame(c, rows) : c \in {{}, {"Time"}, {"Service"}},
                           rows \in SeqUpTo(RowKinds, 2)}
    \cup {Frame({"Service", "Time"}, rows) : rows \in SeqUpTo(RowKinds, MaxRows)}

TimePieces ==
    { <<"D", "u", "e">>, <<"d", "u", "e">>, <<"D", "U", "E">>, <<"M", "i", "n", "s">>,
      <<"m", "i", "n", "s">>, <<"M", "i", "n">>, <<"1">>, <<" ">>, <<":">> }

TimeValues ==
    {StrVal(Concat(p)) : p \in SeqUpTo(TimePieces, MaxTimePieces)} \cup {NaN, IntVal(5)}

Services == {StrVal(<<"4", "6", "A">>), IntVal(145)}

NoMessage == [exc |-> "unset", val |-> <<>>]

NoServiceTime == <<StrVal(<<>>), StrVal(<<>>)>>

(***************************************************************************)
(* Spec: one request through on_post.                                      *)
(***************************************************************************)
Init ==
    /\ pc = "idle"
    /\ req = NoRequest
    /\ bus_stop = NoStop
    /\ full_query = <<>>
    /\ bus_times_response_state = NoneValue
    /\ response = NoResponse
    /\ resp = FreshResp
    /\ raised = "none"
    /\ service_time = NoServiceTime
    /\ message = NoMessage

OnPost ==
    /\ pc = "idle"
    /\ \E r \in Requests, world \in Worlds, rnd \in Rnd :
         \E o \in {on_post(r, world, rnd)} :
             /\ req' = r
             /\ bus_stop' = o.bus_stop
             /\ full_query' = o.full_query
             /\ bus_times_response_state' = o.bus_times_response_state
             /\ response' = o.response
             /\ resp' = o.resp
             /\ raised' = o.raised
    /\ pc' = "done"
    /\ UNCHANGED <<service_time, message>>

Next == OnPost

Spec == Init /\ [][Next]_vars

(***************************************************************************)
(* SpecStop: lines 52-65 of on_post on every stop parameter of the bound.  *)
(***************************************************************************)
InitStop ==
    /\ pc = "idle"
    /\ req \in {Request(TRUE, "call_busstop_api", TRUE, s) : s \in StopTexts}
    /\ bus_stop = NoStop
    /\ full_query = <<>>
    /\ bus_times_response_state = NoneValue
    /\ response = NoResponse
    /\ resp = FreshResp
    /\ raised = "none"
    /\ service_time = NoServiceTime
    /\ message = NoMessage

ResolveStop ==
    /\ pc = "idle"
    /\ bus_stop' = IF HasUsableStop(req) THEN resolve_stop(stop_param_of(req)) ELSE NoStop
    /\ pc' = "resolved"
    /\ UNCHANGED <<req, full_query, bus_times_response_state, response, resp, raised,
                   service_time, message>>

NextStop == ResolveStop

SpecStop == InitStop /\ [][NextStop]_vars

(***************************************************************************)
(* SpecResponse: BusStopResponse(bus_response) on every input of the bound.*)
(***************************************************************************)
InitResponse ==
    /\ pc = "idle"
    /\ req = NoRequest
    /\ bus_stop = NoStop
    /\ full_query = <<>>
    /\ bus_times_response_state \in ResponseInputs
    /\ response = NoResponse
    /\ resp = FreshResp
    /\ raised = "none"
    /\ service_time = NoServiceTime
    /\ message = NoMessage

Construct ==
    /\ pc = "idle"
    /\ \E d \in Draws : response' = BusStopResponse(bus_times_response_state, d)
    /\ pc' = "constructed"
    /\ UNCHANGED <<req, bus_stop, full_query, bus_times_response_state, resp, raised,
                   service_time, message>>

NextResponse == Construct

SpecResponse == InitResponse /\ [][NextResponse]_vars

(***************************************************************************)
(* SpecRow: prepare_message on every (service, time) of the bound.         *)
(***************************************************************************)
InitRow ==
    /\ pc = "idle"
    /\ req = NoRequest
    /\ bus_stop = NoStop
    /\ full_query = <<>>
    /\ bus_times_response_state = NoneValue
    /\ response = NoResponse
    /\ resp = FreshResp
    /\ raised = "none"
    /\ service_time \in {<<s, t>> : s \in Services, t \in TimeValues}
    /\ message = NoMessage

PrepareMessage ==
    /\ pc = "idle"
    /\ message' = prepare_message(service_time)
    /\ pc' = "prepared"
    /\ UNCHANGED <<req, bus_stop, full_query, bus_times_response_state, response, resp,
                   raised, service_time>>

NextRow == PrepareMessage

SpecRow == InitRow /\ [][NextRow]_vars

(***************************************************************************)
(* The claims.                                                             *)
(***************************************************************************)
AllDigits(s) == s # <<>> /\ \A i \in 1..Len(s) : s[i] \in Digits

\* the sign-off phrases that occur in a message
SignOffs(m) == {i \in 1..Len(m) : \E g \in 1..Len(goodbye_message) : m[i] = goodbye_message[g]}

\* C1: every request handled by on_post ends with a response body set, and no
\* exception leaves on_post.
C1_EveryRequestAnswered ==
    pc = "done" => (raised = "none" /\ resp.body.set)

\* C2: a request with action 'call_busstop_api' whose stop text is empty or has
\* no digit makes no fetch and gets the reprompt: a phrase of the greetings bank
\* that expects a user turn.
C2_NoStopReprompts ==
    (pc = "done" /\ req.json_ok /\ req.action = "call_busstop_api"
        /\ FindAllDigits(stop_param_of(req)) = <<>>)
    => /\ full_query = <<>>
       /\ raised = "none"
       /\ resp.body.set
       /\ resp.body.expect_user_response
       /\ \E g \in 1..Len(greetings) : resp.body.text = <<greetings[g]>>

\* the stop text is '<A> to <B>', A its first k characters, both digit runs
IsToForm(s, k) ==
    /\ k >= 1
    /\ k + 5 <= Len(s)
    /\ AllDigits(SubSeq(s, 1, k))
    /\ SubSeq(s, k + 1, k + 4) = <<" ", "t", "o", " ">>
    /\ AllDigits(SubSeq(s, k + 5, Len(s)))

\* C3 as stated: for a stop text '<A> to <B>' the resolved stop id is the digits
\* of A, then '2', then the digits of B.
C3_SpliceKeepsLeft ==
    pc = "resolved" =>
        \A k \in 1..Len(req.stop) :
            IsToForm(req.stop, k) =>
                bus_stop = [exc |-> "none",
                            val |-> DigitsToNat(SubSeq(req.stop, 1, k) \o <<"2">>
                                                \o SubSeq(req.stop, k + 5, Len(req.stop)))]

\* C3 amended: for a stop text '<A> to <B>' the resolved stop id is the digits of
\* A without the last one, then '2', then the digits of B.
C3_SpliceDropsLastOfLeft ==
    pc = "resolved" =>
        \A k \in 1..Len(req.stop) :
            IsToForm(req.stop, k) =>
                bus_stop = [exc |-> "none",
                            val |-> DigitsToNat(SubSeq(req.stop, 1, k - 1) \o <<"2">>
                                                \o SubSeq(req.stop, k + 5, Len(req.stop)))]

\* '70 to 4' has been resolved, to 724
C3_Witness ==
    /\ pc = "resolved"
    /\ req.stop = <<"7", "0", " ", "t", "o", " ", "4">>
    /\ bus_stop = [exc |-> "none", val |-> 724]

\* the stop text is digit runs joined by single interior slashes
IsSlashJoined(s) ==
    /\ s # <<>>
    /\ \A i \in 1..Len(s) : s[i] \in Digits \cup {"/"}
    /\ s[1] # "/"
    /\ s[Len(s)] # "/"
    /\ \A i \in 1..(Len(s) - 1) : ~(s[i] = "/" /\ s[i + 1] = "/")

\* C4: for a stop text of digit runs joined by slashes the resolved stop id is
\* all the digit runs concatenated.
C4_SlashesStripped ==
    (pc = "resolved" /\ IsSlashJoined(req.stop))
    => bus_stop = [exc |-> "none", val |-> DigitsToNat(SelectSeq(req.stop, IsDigit))]

\* C5: set_availability yields NO_BUSES for 0 records, ONE_BUS for 1 and
\* MANY_BUSES for more; above MAX_BUSES records it keeps exactly the first
\* MAX_BUSES in their order, and otherwise all of them.
C5_Classified ==
    (pc = "constructed" /\ bus_times_response_state.type = "DataFrame"
        /\ "Service" \in bus_times_response_state.columns)
    => LET given == bus_times_response_state.rows
           kept == response.bus_response.rows
       IN  /\ Len(given) = 0 => response.availability = "NO_BUSES"
           /\ Len(given) = 1 => response.availability = "ONE_BUS"
           /\ Len(given) > 1 => response.availability = "MANY_BUSES"
           /\ Len(given) > 5 => (Len(kept) = 5 /\ \A i \in 1..5 : kept[i] = given[i])
           /\ Len(given) <= 5 => kept = given

\* a table of six rows has been classified and cut to five
C5_Witness ==
    /\ pc = "constructed"
    /\ Len(bus_times_response_state.rows) = 6
    /\ response.availability = "MANY_BUSES"
    /\ Len(response.bus_response.rows) = 5

\* the detail fragment of one row
Fragment(row) == prepare_message(<<row.Service, row.Time>>).val

RECURSIVE DetailsOf(_)
\* the fragments of the rows, in order, each but the first after ', '
DetailsOf(rows) ==
    IF rows = <<>> THEN <<>>
    ELSE IF Len(rows) = 1 THEN Fragment(rows[1])
    ELSE DetailsOf(SubSeq(rows, 1, Len(rows) - 1)) \o <<",", " ">> \o Fragment(rows[Len(rows)])

\* C6: the message built has no detail fragment in state NO_BUSES, the one
\* fragment after the lead-in in state ONE_BUS, and in state MANY_BUSES one
\* fragment per retained record, in order, joined by ', ', after the lead-in.
C6_MessageShape ==
    (pc = "constructed" /\ response.exc = "none")
    => LET kept == response.bus_response.rows
           m == response.response_message
       IN  /\ response.availability \in {"NO_BUSES", "ONE_BUS", "MANY_BUSES"}
           /\ response.availability = "NO_BUSES"
                  => m = <<"I could not find any buses arriving at this bus stop.">>
           /\ response.availability = "ONE_BUS"
                  => /\ Len(kept) = 1
                     /\ \E p \in 1..Len(single_bus_message) :
                            m = <<"<p><s>", single_bus_message[p], "</s></p>">>
                                \o Fragment(kept[1])
           /\ response.availability = "MANY_BUSES"
                  => \E p \in 1..Len(many_buses_message) :
                         m = <<"<p><s>", many_buses_message[p], "</s></p>">>
                             \o DetailsOf(kept)

\* a message for three buses, not all alike, has been built
C6_Witness ==
    /\ pc = "constructed"
    /\ response.exc = "none"
    /\ response.availability = "MANY_BUSES"
    /\ Len(response.bus_response.rows) = 3
    /\ response.bus_response.rows[1] # response.bus_response.rows[2]

\* a message without its spaces and its tags
Squeezed(m) == SelectSeq(m, LAMBDA c : c # " " /\ c \notin WholeTags)

\* the places of t where 'Mins' starts
MinsAt(t) == {i \in 1..(Len(t) - 3) : SubSeq(t, i, i + 3) = <<"M", "i", "n", "s">>}

\* out is t with every 'Mins' replaced by 'minutes' and the rest unchanged
IsMinsReplaced(t, out) ==
    LET shift(i) == 3 * Cardinality({j \in MinsAt(t) : j < i})
        inside(i) == \E j \in MinsAt(t) : j <= i /\ i <= j + 3
    IN  /\ Len(out) = Len(t) + 3 * Cardinality(MinsAt(t))
        /\ \A i \in 1..Len(t) :
               IF i \in MinsAt(t)
                   THEN SubSeq(out, i + shift(i), i + shift(i) + 6)
                            = <<"m", "i", "n", "u", "t", "e", "s">>
               ELSE IF inside(i) THEN TRUE
               ELSE out[i + shift(i)] = t[i]

C8_DetailsNeverFail ==
    (pc = "constructed" /\ bus_times_response_state.type = "DataFrame"
        /\ {"Service", "Time"} \subseteq bus_times_response_state.columns)
    => response.exc = "none"

C10_OneSignOff ==
    pc = "done" =>
        IF bus_stop.exc = "none" /\ bus_times_response_state.type = "DataFrame"
            THEN /\ resp.body.set
                 /\ Cardinality(SignOffs(resp.body.ssml)) = 1
                 /\ \E g \in 1..Len(goodbye_message) :
                        resp.body.ssml = <<"<speak>">> \o response.response_message
                            \o <<"<break time=\"", "2", "s", "\"/>", goodbye_message[g],
                                 "</speak>">>
            ELSE SignOffs(resp.body.ssml) = {}
====
